---- MODULE Spec2Model ----
(***************************************************************************)
(* Order-submission core of main.py: payload validation (OrderItem),       *)
(* device relay (send_to_esp), history persistence (load_orders /          *)
(* save_orders), recommendation ranking (get_top_drinks) and the two       *)
(* request handlers checkout and recommendations.                          *)
(*                                                                         *)
(* The server is one asyncio event loop (uvicorn.run, one process): a      *)
(* handler runs without interruption between two awaits.  checkout has a   *)
(* single await, the call of send_to_esp, so a checkout is two steps: the  *)
(* part up to the POST, and the part from the relay's outcome to the       *)
(* response.  recommendations has no await and is one step.                *)
(***************************************************************************)
EXTENDS Integers, Sequences, FiniteSets, TLC

(***************************************************************************)
(* Bounds of the model.                                                    *)
(***************************************************************************)
NumReq == 2
MaxHist == 3
MaxLimit == 4
MaxRecHist == 4

Req == 1..NumReq

(***************************************************************************)
(* JSON values of a request body, tagged with their JSON type.             *)
(***************************************************************************)
JStr(s) == <<"str", s>>
JInt(n) == <<"int", n>>
JNull == <<"null">>

Fields == {"drinkId", "drinkName", "quantity", "calories"}

\* class OrderItem: the declared type of each field.
FieldType(f) == IF f \in {"drinkId", "drinkName"} THEN "str" ELSE "int"

\* The fields of one candidate item that pydantic rejects: absent, or not of
\* the declared type.
FieldErrors(x) == {f \in Fields : f \notin DOMAIN x \/ x[f][1] # FieldType(f)}

\* Validation of the body against List[OrderItem]: every offending
\* <<index, field>>, all of them reported.
ValidationErrors(body) ==
    {<<i, f>> \in (DOMAIN body) \X Fields : f \in FieldErrors(body[i])}

\* The body passes: every item has every field, of the declared type.
OrderItem(body) ==
    \A i \in DOMAIN body : \A f \in Fields :
        f \in DOMAIN body[i] /\ body[i][f][1] = FieldType(f)

\* checkout, lines 413-421: the dict built from each validated item.
esp_items(body) ==
    [i \in DOMAIN body |->
        [drinkId   |-> body[i].drinkId[2],
         drinkName |-> body[i].drinkName[2],
         quantity  |-> body[i].quantity[2],
         calories  |-> body[i].calories[2]]]

(***************************************************************************)
(* Candidate items and request bodies the clients submit.                  *)
(***************************************************************************)
RawItem(id, name, qty, cal) ==
    [drinkId |-> JStr(id), drinkName |-> JStr(name), quantity |-> JInt(qty), calories |-> JInt(cal)]

Mojito1 == RawItem("d1", "Mojito", 1, 120)
Cola2 == RawItem("d2", "Cola", 2, 90)
Blank1 == RawItem("d3", "", 1, 0)
NoName == [drinkId |-> JStr("d1"), quantity |-> JInt(1), calories |-> JInt(120)]
NullQty == [drinkId |-> JStr("d2"), drinkName |-> JStr("Cola"), quantity |-> JNull, calories |-> JInt(90)]

Bodies ==
    { <<Mojito1, Cola2>>, <<Blank1>>, <<NoName>>, <<Mojito1, NullQty>> }

(***************************************************************************)
(* Outcome of a call: a returned value or a raised exception.              *)
(***************************************************************************)
NoValue == <<"absent">>
Return(v) == [raised |-> FALSE, value |-> v, exc |-> ""]
Raise(e) == [raised |-> TRUE, value |-> NoValue, exc |-> e]

(***************************************************************************)
(* DeviceRelayClient: send_to_esp.                                         *)
(***************************************************************************)
\* What the controller can answer to a POST: a status and a body text.
EspReplies ==
    { [status |-> 200, text |-> "{\"ok\": true}"],
      [status |-> 200, text |-> "{\"queued\": 2}"],
      [status |-> 200, text |-> "pouring"],
      [status |-> 503, text |-> "{\"busy\": true}"] }

NoReply == [status |-> 0, text |-> ""]

\* What the HTTP client gets back from the network: a response, or one of
\* httpx's transport exceptions (the timeouts of httpx.Timeout(8.0,
\* connect=3.0) among them).
Received(reply) == [exc |-> "", status |-> reply.status, text |-> reply.text]
Failed(e) == [exc |-> e, status |-> 0, text |-> ""]
TransportErrors == {"ConnectError", "ReadTimeout"}
\* The errors after which the request never left: no connection was made
\* (a ConnectTimeout is handled as a ConnectError is).
ConnectErrors == {"ConnectError"}

\* r.raise_for_status(): raises unless the status is a success (2xx).
raise_for_status(status) == ~(status >= 200 /\ status <= 299)

\* r.json(): the parsed body, a decoding error for a body that is no JSON.
IsJson(text) == text \in {"{\"ok\": true}", "{\"queued\": 2}", "{\"busy\": true}"}
r_json(text) ==
    CASE text = "{\"ok\": true}" -> <<"object", "ok", TRUE>>
      [] text = "{\"queued\": 2}" -> <<"object", "queued", 2>>
      [] text = "{\"busy\": true}" -> <<"object", "busy", TRUE>>
      [] OTHER -> NoValue

send_to_esp(net) ==
    IF net.exc # "" THEN Raise(net.exc)
    ELSE IF raise_for_status(net.status) THEN Raise("HTTPStatusError")
    ELSE IF ~IsJson(net.text) THEN Raise("JSONDecodeError")
    ELSE Return(r_json(net.text))

(***************************************************************************)
(* OrderHistoryStore: orders.json, load_orders, save_orders.               *)
(* The file holds text: one line <<drinkId, drinkName, quantity,           *)
(* calories>> per entry when it is the dump of a list, anything else when  *)
(* it is not (valid = FALSE).                                              *)
(***************************************************************************)
NoFile == [exists |-> FALSE, valid |-> FALSE, lines |-> <<>>]
FileOf(lines) == [exists |-> TRUE, valid |-> TRUE, lines |-> lines]
Truncated == [exists |-> TRUE, valid |-> FALSE, lines |-> <<>>]

json_dump(orders) ==
    [i \in DOMAIN orders |->
        <<orders[i].drinkId, orders[i].drinkName, orders[i].quantity, orders[i].calories>>]

json_load(lines) ==
    [i \in DOMAIN lines |->
        [drinkId |-> lines[i][1], drinkName |-> lines[i][2],
         quantity |-> lines[i][3], calories |-> lines[i][4]]]

\* A variant without the test of line 47: a missing file is an error.
load_orders_no_exists_check(f) ==
    IF ~f.exists \/ ~f.valid THEN Raise("OSError") ELSE Return(json_load(f.lines))

load_orders(f) ==
    IF ~f.exists THEN Return(<<>>)
    ELSE IF ~f.valid THEN Raise("JSONDecodeError")
    ELSE Return(json_load(f.lines))

\* open(ORDERS_FILE, "w") and json.dump: the file after the call and whether
\* the call raised.  A read-only medium fails the open; a full one fails the
\* write, after the open has truncated the file.
save_orders(f, d, orders) ==
    CASE d = "readonly" -> [file |-> f, raised |-> TRUE]
      [] d = "full" -> [file |-> Truncated, raised |-> TRUE]
      [] OTHER -> [file |-> FileOf(json_dump(orders)), raised |-> FALSE]

(***************************************************************************)
(* RecommendationEngine: get_top_drinks.                                   *)
(***************************************************************************)
\* counter[name] += qty on a Counter kept as its entries <<name, total>> in
\* insertion order (the order of a dict).
CounterAdd(counter, name, qty) ==
    IF \E k \in DOMAIN counter : counter[k][1] = name
    THEN [k \in DOMAIN counter |->
            IF counter[k][1] = name THEN <<name, counter[k][2] + qty>> ELSE counter[k]]
    ELSE Append(counter, <<name, qty>>)

\* A variant of the loop without the test of the name.
RECURSIVE CountOrders_counts_blank(_)
CountOrders_counts_blank(orders) ==
    IF orders = <<>> THEN <<>>
    ELSE LET item == orders[Len(orders)]
             counter == CountOrders_counts_blank(SubSeq(orders, 1, Len(orders) - 1))
         IN CounterAdd(counter, item.drinkName, item.quantity)

\* The loop of lines 65-70: entries with an empty name are skipped.
RECURSIVE CountOrders(_)
CountOrders(orders) ==
    IF orders = <<>> THEN <<>>
    ELSE LET item == orders[Len(orders)]
             counter == CountOrders(SubSeq(orders, 1, Len(orders) - 1))
         IN IF item.drinkName # ""
            THEN CounterAdd(counter, item.drinkName, item.quantity)
            ELSE counter

\* A variant whose sort puts the later of two equal totals first.
Rank_ties_last(counter, k) ==
    Cardinality({j \in DOMAIN counter :
        \/ counter[j][2] > counter[k][2]
        \/ counter[j][2] = counter[k][2] /\ j > k})

\* Counter.most_common(n): the entries sorted by total, largest first, entries
\* of equal total in insertion order (the sort is stable), cut to the first n.
Rank(counter, k) ==
    Cardinality({j \in DOMAIN counter :
        \/ counter[j][2] > counter[k][2]
        \/ counter[j][2] = counter[k][2] /\ j < k})

\* A variant that cuts the entries without sorting them.
most_common_unsorted(counter, n) ==
    SubSeq(counter, 1, IF n < Len(counter) THEN n ELSE Len(counter))

most_common(counter, n) ==
    LET sorted == [p \in DOMAIN counter |->
                     counter[CHOOSE k \in DOMAIN counter : Rank(counter, k) = p - 1]]
        m == IF n < Len(sorted) THEN n ELSE Len(sorted)
    IN SubSeq(sorted, 1, m)

\* get_top_drinks(limit) on the file f; load_orders may raise.
get_top_drinks(f, limit) ==
    LET loaded == load_orders(f)
    IN IF loaded.raised THEN loaded
       ELSE IF loaded.value = <<>> THEN Return(<<>>)
       ELSE LET top == most_common(CountOrders(loaded.value), limit)
            IN Return([i \in DOMAIN top |-> top[i][1]])

(***************************************************************************)
(* Responses of the two endpoints.  A key the body does not carry is       *)
(* NoKey (a string), NoValue (a JSON value) or {} (the detail).            *)
(***************************************************************************)
NoKey == "<absent>"
NoResponse == [http |-> 0, status |-> NoKey, message |-> <<>>, esp |-> NoValue, detail |-> {}]

\* FastAPI's answer to a body that fails validation: 422 and a detail list.
Unprocessable(errors) ==
    [http |-> 422, status |-> NoKey, message |-> <<>>, esp |-> NoValue, detail |-> errors]
\* An exception that leaves the handler: 500 Internal Server Error.
InternalServerError ==
    [http |-> 500, status |-> NoKey, message |-> <<>>, esp |-> NoValue, detail |-> {}]
\* line 427
ErrorResult(e) ==
    [http |-> 200, status |-> "error", message |-> <<"Could not reach robot: ", e>>,
     esp |-> NoValue, detail |-> {}]
\* A variant that answers with a confirmation of its own making.
OkResult_fixed(esp_reply) ==
    [http |-> 200, status |-> "ok", message |-> <<"Order sent to robot and saved!">>,
     esp |-> <<"object", "ok", TRUE>>, detail |-> {}]

\* line 434
OkResult(esp_reply) ==
    [http |-> 200, status |-> "ok", message |-> <<"Order sent to robot and saved!">>,
     esp |-> esp_reply, detail |-> {}]

\* A variant that saves the order whatever the relay's outcome.
checkout_resume_save_always(f, d, items, relayed) ==
    LET orders == load_orders(f)
        saved == save_orders(f, d, orders.value \o items)
    IN [file |-> saved.file,
        response |-> IF relayed.raised THEN ErrorResult(relayed.exc)
                     ELSE OkResult(relayed.value)]

\* A variant that puts the new items in front of the loaded history.
checkout_resume_prepend(f, d, items, relayed) ==
    IF relayed.raised
    THEN [file |-> f, response |-> ErrorResult(relayed.exc)]
    ELSE [file |-> save_orders(f, d, items \o load_orders(f).value).file,
          response |-> OkResult(relayed.value)]

\* A variant that answers ok without saving.
checkout_resume_skip_save(f, d, items, relayed) ==
    IF relayed.raised
    THEN [file |-> f, response |-> ErrorResult(relayed.exc)]
    ELSE [file |-> f, response |-> OkResult(relayed.value)]

\* A variant that saves the new items alone, without the orders it loaded.
checkout_resume_save_new_only(f, d, items, relayed) ==
    IF relayed.raised
    THEN [file |-> f, response |-> ErrorResult(relayed.exc)]
    ELSE LET saved == save_orders(f, d, items)
         IN [file |-> saved.file,
             response |-> IF saved.raised THEN InternalServerError
                          ELSE OkResult(relayed.value)]

\* checkout from the outcome of `await send_to_esp(esp_items)` to its
\* response (lines 424-434), on the file f and the medium d: the file it
\* leaves and the response.
checkout_resume(f, d, items, relayed) ==
    IF relayed.raised
    THEN [file |-> f, response |-> ErrorResult(relayed.exc)]
    ELSE LET orders == load_orders(f)
         IN IF orders.raised
            THEN [file |-> f, response |-> InternalServerError]
            ELSE LET saved == save_orders(f, d, orders.value \o items)
                 IN [file |-> saved.file,
                     response |-> IF saved.raised THEN InternalServerError
                                  ELSE OkResult(relayed.value)]

\* recommendations, lines 440-448: the page's list, or the paragraph shown
\* when get_top_drinks returned nothing.  An exception of load_orders leaves
\* the handler.
NoPage == [http |-> 0, limit |-> 0, top |-> <<>>, nohistory |-> FALSE]
\* A variant that asks for the top 5.
recommendations_page_top5(f) ==
    LET top == get_top_drinks(f, 5)
    IN IF top.raised
       THEN [http |-> 500, limit |-> 5, top |-> <<>>, nohistory |-> FALSE]
       ELSE [http |-> 200, limit |-> 5, top |-> top.value, nohistory |-> top.value = <<>>]

recommendations_page(f) ==
    LET top == get_top_drinks(f, 3)
    IN IF top.raised
       THEN [http |-> 500, limit |-> 3, top |-> <<>>, nohistory |-> FALSE]
       ELSE [http |-> 200, limit |-> 3, top |-> top.value, nohistory |-> top.value = <<>>]

(***************************************************************************)
(* State.                                                                  *)
(***************************************************************************)
VARIABLES
    orders_json,  \* the file ORDERS_FILE
    disk,         \* the medium under it: "ok", "readonly" or "full"
    pc,           \* per request: "idle", "relaying" (suspended in the await), "done"
    body,         \* per request: the JSON body submitted
    items,        \* per request: esp_items
    posts,        \* per request: the POSTs issued to the controller
    esp,          \* per request: the controller's answer, NoReply before it
    dispensed,    \* the requests the controller accepted (2xx), in order
    relayed,      \* per request: the outcome of send_to_esp
    response,     \* per request: the response of checkout
    before,       \* per request: the file when the checkout began
    overlapped,   \* per request: another checkout was in progress during it
    appends,      \* the lists handed to the store (lines 430-432), in order
    completed,    \* the requests whose relay returned an answer, in that order
    rec           \* the last answer of recommendations / get_top_drinks

vars == <<orders_json, disk, pc, body, items, posts, esp, dispensed, relayed,
          response, before, overlapped, appends, completed, rec>>

Pending == [raised |-> FALSE, value |-> NoValue, exc |-> "<pending>"]

InitRequests ==
    /\ disk = "ok"
    /\ pc = [r \in Req |-> "idle"]
    /\ body = [r \in Req |-> <<>>]
    /\ items = [r \in Req |-> <<>>]
    /\ posts = [r \in Req |-> 0]
    /\ esp = [r \in Req |-> NoReply]
    /\ dispensed = <<>>
    /\ relayed = [r \in Req |-> Pending]
    /\ response = [r \in Req |-> NoResponse]
    /\ before = [r \in Req |-> NoFile]
    /\ overlapped = [r \in Req |-> FALSE]
    /\ appends = <<>>
    /\ completed = <<>>
    /\ rec = NoPage

\* The server starts with no orders.json: load_orders reads it as [].
Init ==
    /\ orders_json = NoFile
    /\ InitRequests

(***************************************************************************)
(* checkout.                                                               *)
(***************************************************************************)
InProgress(r) == pc[r] = "relaying"

\* A variant in which validation lets every body through to the relay.
Submit_unvalidated(r, b) ==
    /\ pc[r] = "idle"
    /\ body' = [body EXCEPT ![r] = b]
    /\ items' = [items EXCEPT ![r] = <<>>]
    /\ posts' = [posts EXCEPT ![r] = @ + 1]
    /\ pc' = [pc EXCEPT ![r] = "relaying"]
    /\ before' = [before EXCEPT ![r] = orders_json]
    /\ UNCHANGED <<orders_json, disk, esp, dispensed, relayed, appends, completed, rec,
                   response, overlapped>>

\* POST /checkout with body b: validation, then lines 413-425 up to the
\* await of send_to_esp, which issues the one POST and suspends.
Submit(r, b) ==
    /\ pc[r] = "idle"
    /\ body' = [body EXCEPT ![r] = b]
    /\ IF ~OrderItem(b)
       THEN /\ response' = [response EXCEPT ![r] = Unprocessable(ValidationErrors(b))]
            /\ pc' = [pc EXCEPT ![r] = "done"]
            /\ UNCHANGED <<items, posts, before, overlapped>>
       ELSE /\ items' = [items EXCEPT ![r] = esp_items(b)]
            /\ posts' = [posts EXCEPT ![r] = @ + 1]
            /\ pc' = [pc EXCEPT ![r] = "relaying"]
            /\ before' = [before EXCEPT ![r] = orders_json]
            /\ overlapped' = [q \in Req |->
                    IF q = r THEN \E o \in Req : InProgress(o)
                    ELSE overlapped[q] \/ InProgress(q)]
            /\ UNCHANGED response
    /\ UNCHANGED <<orders_json, disk, esp, dispensed, relayed, appends, completed, rec>>

\* The controller answers the POST of request r; a 2xx answer is an order it
\* accepted.  It may do so after the client gave up waiting (ReadTimeout),
\* not after a connection that was never made.
EspHandle(r, reply) ==
    /\ posts[r] > 0
    /\ esp[r] = NoReply
    /\ relayed[r].exc \notin ConnectErrors
    /\ esp' = [esp EXCEPT ![r] = reply]
    /\ dispensed' = IF raise_for_status(reply.status) THEN dispensed ELSE Append(dispensed, r)
    /\ UNCHANGED <<orders_json, disk, pc, body, items, posts, relayed, response,
                   before, overlapped, appends, completed, rec>>

\* A variant that loads the orders before the await and saves after it.
Resume_stale_load(r, net) ==
    LET esp_reply == send_to_esp(net)
        out == checkout_resume(before[r], disk, items[r], esp_reply)
    IN /\ relayed' = [relayed EXCEPT ![r] = esp_reply]
       /\ orders_json' = IF esp_reply.raised THEN orders_json ELSE out.file
       /\ response' = [response EXCEPT ![r] = out.response]
       /\ pc' = [pc EXCEPT ![r] = "done"]
       /\ appends' = IF esp_reply.raised THEN appends ELSE Append(appends, items[r])
       /\ completed' = IF esp_reply.raised THEN completed ELSE Append(completed, r)
       /\ UNCHANGED <<disk, body, items, posts, esp, dispensed, before, overlapped,
                      rec>>

\* The await of line 425 ends with what the network gave (net); checkout runs
\* on to its return without another await.
Resume(r, net) ==
    LET esp_reply == send_to_esp(net)
        out == checkout_resume(orders_json, disk, items[r], esp_reply)
    IN /\ relayed' = [relayed EXCEPT ![r] = esp_reply]
       /\ orders_json' = out.file
       /\ response' = [response EXCEPT ![r] = out.response]
       /\ pc' = [pc EXCEPT ![r] = "done"]
       /\ appends' = IF esp_reply.raised THEN appends ELSE Append(appends, items[r])
       /\ completed' = IF esp_reply.raised THEN completed ELSE Append(completed, r)
       /\ UNCHANGED <<disk, body, items, posts, esp, dispensed, before, overlapped,
                      rec>>

\* The controller's answer reaches the client.
RelayResponds(r) ==
    /\ pc[r] = "relaying"
    /\ esp[r] # NoReply
    /\ Resume(r, Received(esp[r]))

\* A variant that sends the order again after a failure.
RelayFails_retry(r, e) ==
    /\ pc[r] = "relaying"
    /\ posts[r] < 2
    /\ posts' = [posts EXCEPT ![r] = @ + 1]
    /\ UNCHANGED <<orders_json, disk, pc, body, items, esp, dispensed, relayed,
                   response, before, overlapped, appends, completed, rec>>

\* A variant whose call has no timeout: it fails only when no connection is made.
RelayFails_no_timeout(r, e) ==
    /\ pc[r] = "relaying"
    /\ e \in ConnectErrors
    /\ esp[r] = NoReply
    /\ Resume(r, Failed(e))

\* The call fails in transport: no connection, or no answer within the timeout.
RelayFails(r, e) ==
    /\ pc[r] = "relaying"
    /\ e \in ConnectErrors => esp[r] = NoReply
    /\ Resume(r, Failed(e))

(***************************************************************************)
(* recommendations.                                                        *)
(***************************************************************************)
\* A variant whose read creates the file when it is missing.
recommendations_creates_file ==
    /\ rec' = recommendations_page(orders_json)
    /\ rec' # rec
    /\ orders_json' = IF orders_json.exists THEN orders_json ELSE FileOf(json_dump(<<>>))
    /\ UNCHANGED <<disk, pc, body, items, posts, esp, dispensed, relayed,
                   response, before, overlapped, appends, completed>>

recommendations ==
    /\ rec' = recommendations_page(orders_json)
    /\ rec' # rec
    /\ UNCHANGED <<orders_json, disk, pc, body, items, posts, esp, dispensed, relayed,
                   response, before, overlapped, appends, completed>>

Next ==
    \/ \E r \in Req, b \in Bodies : Submit(r, b)
    \/ \E r \in Req, reply \in EspReplies : EspHandle(r, reply)
    \/ \E r \in Req : RelayResponds(r)
    \/ \E r \in Req, e \in TransportErrors : RelayFails(r, e)
    \/ recommendations

Spec == Init /\ [][Next]_vars

\* The steps of checkout and of the controller, without the reads of the
\* recommendations page, which take no part in a checkout's progress.
NextCheckout ==
    \/ \E r \in Req, b \in Bodies : Submit(r, b)
    \/ \E r \in Req, reply \in EspReplies : EspHandle(r, reply)
    \/ \E r \in Req : RelayResponds(r)
    \/ \E r \in Req, e \in TransportErrors : RelayFails(r, e)

\* The call of line 36 runs under httpx.Timeout(8.0, connect=3.0) (line 34):
\* a call that is still waiting is ended by its timeout.
SpecTimeout ==
    /\ Init
    /\ [][NextCheckout]_vars
    /\ \A r \in Req : WF_vars(RelayFails(r, "ReadTimeout"))

(***************************************************************************)
(* The same server on a medium that can fail: it turns read-only or full,  *)
(* and back.                                                               *)
(***************************************************************************)
Media == {"ok", "readonly", "full"}

MediumChanges(d) ==
    /\ d # disk
    /\ disk' = d
    /\ UNCHANGED <<orders_json, pc, body, items, posts, esp, dispensed, relayed,
                   response, before, overlapped, appends, completed, rec>>

NextFault ==
    \/ Next
    \/ \E d \in Media : MediumChanges(d)

SpecFault == Init /\ [][NextFault]_vars

(***************************************************************************)
(* get_top_drinks on its own: any stored history of up to MaxHist entries, *)
(* any limit up to MaxLimit.                                               *)
(***************************************************************************)
TopNames == {"Mojito", "Cola", "Tonic", ""}
TopQuantities == {-1, 1, 2}
TopItems ==
    {[drinkId |-> "d", drinkName |-> n, quantity |-> q, calories |-> 0] :
        n \in TopNames, q \in TopQuantities}
Histories == UNION {[1..n -> TopItems] : n \in 0..MaxHist}

InitTop ==
    /\ orders_json \in {NoFile} \cup {FileOf(json_dump(h)) : h \in Histories}
    /\ InitRequests

TopDrinks(limit) ==
    LET top == get_top_drinks(orders_json, limit)
    IN /\ rec' = [http |-> 200, limit |-> limit, top |-> top.value, nohistory |-> FALSE]
       /\ rec' # rec
       /\ UNCHANGED <<orders_json, disk, pc, body, items, posts, esp, dispensed, relayed,
                      response, before, overlapped, appends, completed>>

NextTop == \E limit \in 0..MaxLimit : TopDrinks(limit)

SpecTop == InitTop /\ [][NextTop]_vars

(***************************************************************************)
(* The recommendations page and get_top_drinks over stored histories long  *)
(* enough to hold more names than the page asks for.                       *)
(***************************************************************************)
RecNames == {"Mojito", "Cola", "Tonic", "Lime", ""}
RecQuantities == {1}
RecItems ==
    {[drinkId |-> "d", drinkName |-> n, quantity |-> q, calories |-> 0] :
        n \in RecNames, q \in RecQuantities}
RecHistories == UNION {[1..n -> RecItems] : n \in 0..MaxRecHist}

InitRec ==
    /\ orders_json \in {NoFile} \cup {FileOf(json_dump(h)) : h \in RecHistories}
    /\ InitRequests

NextRec ==
    \/ recommendations
    \/ \E limit \in 0..MaxLimit : TopDrinks(limit)

SpecRec == InitRec /\ [][NextRec]_vars

(***************************************************************************)
(* Properties.                                                             *)
(***************************************************************************)
History(f) == load_orders(f).value
Valid(r) == OrderItem(body[r])
\* Request r takes the step that ends its await of send_to_esp.
Returns(r) == pc[r] = "relaying" /\ pc'[r] = "done"
Range(seq) == {seq[i] : i \in DOMAIN seq}
\* The file g holds the history of the file f followed by the items its.
Appended(f, g, its) ==
    /\ ~load_orders(f).raised /\ ~load_orders(g).raised
    /\ History(g) = History(f) \o its
Count(x, seq) == Cardinality({i \in DOMAIN seq : seq[i] = x})

\* f[1] + ... + f[n]
RECURSIVE SumTo(_, _)
SumTo(f, n) == IF n = 0 THEN 0 ELSE f[n] + SumTo(f, n - 1)

RECURSIVE Flatten(_)
Flatten(lists) ==
    IF lists = <<>> THEN <<>> ELSE Head(lists) \o Flatten(Tail(lists))

\* C1: a checkout of valid items whose relay fails, whatever the cause, ends
\* with status=error and leaves the stored history as it was: the step that
\* ends it does not touch the file, and with no other checkout in progress
\* the file is the one the checkout found when it began.
C1_NoPersistOnRelayFailure ==
    [][\A r \in Req :
        (Returns(r) /\ Valid(r) /\ relayed'[r].raised) =>
            /\ response'[r].status = "error"
            /\ orders_json' = orders_json
            /\ ~overlapped[r] => orders_json' = before[r]]_vars

C1_Witness ==
    \E r \in Req :
        /\ pc[r] = "done" /\ Valid(r) /\ ~overlapped[r]
        /\ relayed[r].exc = "ReadTimeout"
        /\ esp[r].status = 200
        /\ response[r].status = "error"
        /\ History(orders_json) # <<>>

\* C2: a checkout of valid items whose relay succeeds, with no other checkout
\* in progress during it, leaves as stored history the history it found when
\* it began followed by exactly the submitted items, in order.
C2_AppendExactness ==
    [][\A r \in Req :
        (Returns(r) /\ Valid(r) /\ ~relayed'[r].raised /\ ~overlapped[r]) =>
            History(orders_json') = History(before[r]) \o esp_items(body[r])]_vars

C2_Witness ==
    \E r \in Req :
        /\ pc[r] = "done" /\ ~overlapped[r] /\ ~relayed[r].raised
        /\ Len(items[r]) = 2
        /\ History(before[r]) # <<>>
        /\ History(orders_json) = History(before[r]) \o items[r]

\* C3: in every reachable state the stored history holds, entry for entry,
\* the items of exactly the completed checkouts whose relay returned
\* success: each item as many times as those checkouts submitted it.
C3_RecordedIffAccepted ==
    \A x \in Range(History(orders_json)) \cup UNION {Range(items[r]) : r \in Req} :
        LET Accepted == [r \in Req |->
                IF pc[r] = "done" /\ Valid(r) /\ ~relayed[r].raised
                THEN Count(x, esp_items(body[r])) ELSE 0]
        IN Count(x, History(orders_json)) = SumTo(Accepted, NumReq)

C3_Witness ==
    \E r, q \in Req :
        /\ pc[r] = "done" /\ ~relayed[r].raised
        /\ pc[q] = "done" /\ Valid(q) /\ relayed[q].raised
        /\ body[r] # body[q]
        /\ overlapped[r] /\ overlapped[q]

\* C4 as stated: a checkout whose body fails validation ends with
\* status=error and a message, without a relay call and with the stored
\* history unchanged.
C4_InvalidGivesStatusError ==
    [][\A r \in Req :
        (pc[r] = "idle" /\ pc'[r] # "idle" /\ ~OrderItem(body'[r])) =>
            /\ pc'[r] = "done"
            /\ response'[r].status = "error"
            /\ response'[r].message # <<>>
            /\ posts'[r] = 0
            /\ orders_json' = orders_json]_vars

\* C4, amended: a checkout whose body fails validation ends at once with the
\* framework's 422 response, whose detail names every invalid field and
\* which carries no status and no message; it makes no relay call, then or
\* later, and leaves the stored history unchanged.
C4_InvalidGives422 ==
    /\ [][\A r \in Req :
            (pc[r] = "idle" /\ pc'[r] # "idle" /\ ~OrderItem(body'[r])) =>
                /\ pc'[r] = "done"
                /\ response'[r].http = 422
                /\ response'[r].status = NoKey /\ response'[r].message = <<>>
                /\ response'[r].detail # {}
                /\ \A e \in response'[r].detail :
                      LET x == body'[r][e[1]]
                      IN e[2] \notin DOMAIN x \/ x[e[2]][1] # FieldType(e[2])
                /\ orders_json' = orders_json]_vars
    /\ [](\A r \in Req :
            (pc[r] # "idle" /\ ~Valid(r)) =>
                posts[r] = 0 /\ esp[r] = NoReply /\ pc[r] = "done")

C4_Witness ==
    \E r, q \in Req :
        /\ pc[r] = "done" /\ response[r].detail = {<<1, "drinkName">>}
        /\ pc[q] = "done" /\ response[q].detail = {<<2, "quantity">>}
        /\ posts[r] = 0 /\ posts[q] = 0

\* C5: when the same items were submitted several times, every attempt but
\* one failing in the relay and one succeeding, the stored history holds
\* those items exactly once.
C5_RetryRecordsOnce ==
    \A b \in Bodies :
        LET tried == {r \in Req : pc[r] # "idle"}
            won == {r \in tried : ~relayed[r].raised}
        IN (/\ OrderItem(b)
            /\ Cardinality(tried) >= 2
            /\ \A r \in tried : pc[r] = "done" /\ body[r] = b
            /\ Cardinality(won) = 1)
           => History(orders_json) = esp_items(b)

C5_Witness ==
    \E r, q \in Req :
        /\ pc[r] = "done" /\ pc[q] = "done" /\ body[r] = body[q] /\ Valid(r)
        /\ relayed[r].exc = "ReadTimeout" /\ esp[r].status = 200
        /\ ~overlapped[r] /\ ~overlapped[q]
        /\ ~relayed[q].raised
        /\ History(orders_json) = items[q]

\* C6 as stated, for the checkouts that passed validation: each ends in a
\* structured result, status=ok or, for a failure at any stage (relay or
\* persistence), status=error; and no checkout at all ends in a fault that
\* leaves the handler.
C6_EveryFailureStructured ==
    \A r \in Req :
        pc[r] = "done" =>
            /\ response[r].http # 500
            /\ Valid(r) => response[r].status \in {"ok", "error"}

\* C7 as stated: status=ok exactly when the relay succeeded and the items
\* were stored, then with the device's reply; status=error without a device
\* reply in every other case.
C7_OkOrError ==
    [][\A r \in Req :
        (pc[r] # "done" /\ pc'[r] = "done") =>
            /\ response'[r].status = "ok" <=>
                  (/\ Valid(r) /\ ~relayed'[r].raised
                   /\ Appended(orders_json, orders_json', esp_items(body[r])))
            /\ response'[r].status = "ok" => response'[r].esp = r_json(esp[r].text)
            /\ response'[r].status # "ok" =>
                  response'[r].status = "error" /\ response'[r].esp = NoValue]_vars

\* C7, amended: status=ok exactly when the relay succeeded and the items
\* were stored, then with the device's reply as parsed from its body; a
\* checkout whose relay failed answers status=error without a device reply;
\* a checkout whose body is invalid answers 422, without status and without
\* a device reply.
C7_OkErrorOr422 ==
    [][\A r \in Req :
        (pc[r] # "done" /\ pc'[r] = "done") =>
            /\ response'[r].status = "ok" <=>
                  (/\ OrderItem(body'[r]) /\ ~relayed'[r].raised
                   /\ Appended(orders_json, orders_json', esp_items(body'[r])))
            /\ response'[r].status = "ok" =>
                  /\ response'[r].http = 200
                  /\ response'[r].esp = r_json(esp[r].text)
                  /\ response'[r].esp # NoValue
            /\ (OrderItem(body'[r]) /\ relayed'[r].raised) =>
                  /\ response'[r].http = 200
                  /\ response'[r].status = "error"
                  /\ response'[r].esp = NoValue
            /\ ~OrderItem(body'[r]) =>
                  /\ response'[r].http = 422
                  /\ response'[r].status = NoKey
                  /\ response'[r].esp = NoValue]_vars

C7_Witness ==
    \E r, q \in Req :
        /\ pc[r] = "done" /\ response[r].status = "ok"
        /\ response[r].esp = <<"object", "ok", TRUE>>
        /\ Range(items[r]) \subseteq Range(History(orders_json))
        /\ pc[q] = "done" /\ response[q].status = "error"
        /\ esp[q].status = 503

\* C8: a checkout that passed validation has issued exactly one POST to the
\* controller from its start on, whatever became of the call; one that did
\* not pass has issued none; no checkout ever issues a second.
C8_ExactlyOneRelay ==
    \A r \in Req :
        /\ posts[r] <= 1
        /\ pc[r] # "idle" => posts[r] = (IF Valid(r) THEN 1 ELSE 0)

C8_Witness ==
    \E r, q \in Req :
        /\ pc[r] = "done" /\ relayed[r].exc = "ConnectError" /\ posts[r] = 1
        /\ pc[q] = "done" /\ response[q].status = "ok" /\ posts[q] = 1

\* C9: load on a store that was never written returns the empty sequence,
\* and on the store that began absent it returns the concatenation of the
\* lists appended so far, in the order of the appends.
C9_LoadIsConcatenationOfAppends ==
    /\ ~orders_json.exists => load_orders(orders_json) = Return(<<>>)
    /\ load_orders(orders_json) = Return(Flatten(appends))

C9_Witness ==
    /\ Len(appends) = 2
    /\ appends[1] # appends[2]
    /\ Len(History(orders_json)) = 3

\* The total of a name: the sum of quantity over the entries bearing it.
RECURSIVE Total(_, _)
Total(h, name) ==
    IF h = <<>> THEN 0
    ELSE (IF Head(h).drinkName = name THEN Head(h).quantity ELSE 0) + Total(Tail(h), name)

NamesOf(h) == {h[i].drinkName : i \in DOMAIN h}
ExampleHistory ==
    << [drinkId |-> "d", drinkName |-> "Mojito", quantity |-> 2, calories |-> 0],
       [drinkId |-> "d", drinkName |-> "Cola", quantity |-> 1, calories |-> 0],
       [drinkId |-> "d", drinkName |-> "Mojito", quantity |-> 1, calories |-> 0] >>

\* What C10 asks of the result top for the history h and the limit, the
\* names that may not be left out for a smaller one being those of `among`.
Ranked(h, limit, top, among) ==
    /\ Len(top) <= limit
    /\ \A i, j \in DOMAIN top : i # j => top[i] # top[j]
    /\ \A i \in DOMAIN top : top[i] \in NamesOf(h)
    /\ \A i, j \in DOMAIN top : i < j => Total(h, top[i]) >= Total(h, top[j])
    /\ \A n \in among \ Range(top) : \A i \in DOMAIN top : Total(h, n) <= Total(h, top[i])
    /\ (h = ExampleHistory /\ limit = 3) => top = <<"Mojito", "Cola">>

\* C10 as stated: for every history and limit the result is a sequence of
\* distinct names of the history, at most limit long, by non-increasing
\* total, and no name of the history left out has a larger total than one
\* returned.
C10_TopDrinksRanked ==
    rec.http = 200 =>
        Ranked(History(orders_json), rec.limit, rec.top, NamesOf(History(orders_json)))

\* C10, amended: the same, the names being the non-empty names of the
\* history: an entry with an empty drinkName is never counted, so the empty
\* name is left out whatever its total.
C10_TopDrinksRankedNonEmpty ==
    rec.http = 200 =>
        /\ Ranked(History(orders_json), rec.limit, rec.top,
                  NamesOf(History(orders_json)) \ {""})
        /\ "" \notin Range(rec.top)

C10_Witness ==
    /\ rec.http = 200 /\ rec.limit = 2
    /\ Len(History(orders_json)) = 3
    /\ Cardinality(NamesOf(History(orders_json)) \ {""}) = 2
    /\ "" \in NamesOf(History(orders_json))
    /\ Total(History(orders_json), "") > Total(History(orders_json), rec.top[1])
    /\ Len(rec.top) = 2
    /\ Total(History(orders_json), rec.top[1]) > Total(History(orders_json), rec.top[2])
    /\ History(orders_json)[1].drinkName = rec.top[2]

\* The place of the first entry of the history h that bears the name.
FirstOccurrence(h, name) ==
    CHOOSE i \in DOMAIN h :
        h[i].drinkName = name /\ \A j \in 1..(i - 1) : h[j].drinkName # name

\* Name a goes before name b: a larger total, or the same total and an
\* earlier first occurrence.
GoesBefore(h, a, b) ==
    \/ Total(h, a) > Total(h, b)
    \/ Total(h, a) = Total(h, b) /\ FirstOccurrence(h, a) < FirstOccurrence(h, b)

TieHistory ==
    << [drinkId |-> "d", drinkName |-> "Cola", quantity |-> 2, calories |-> 0],
       [drinkId |-> "d", drinkName |-> "Mojito", quantity |-> 2, calories |-> 0] >>

C12_EmptyHistoryAndAtMostThree ==
    /\ [](rec.http = 200 /\ History(orders_json) = <<>> => rec.top = <<>>)
    /\ [][recommendations =>
            /\ rec'.http = 200
            /\ Len(rec'.top) <= 3
            /\ History(orders_json) = <<>> => rec'.nohistory /\ rec'.top = <<>>]_vars

C12_Witness ==
    /\ rec.http = 200 /\ rec.limit = 3 /\ rec.nohistory /\ rec.top = <<>>
    /\ orders_json.exists /\ History(orders_json) = <<>>

\* Request r returned from checkout after a relay that gave an answer.
Succeeded(r) == pc[r] = "done" /\ relayed[r] # Pending /\ ~relayed[r].raised

\* The entries in the history h that the i-th completed checkout wrote, were
\* every completed checkout's list stored in the order of completion.
BlockStart(i) == SumTo([k \in DOMAIN completed |-> Len(items[completed[k]])], i - 1)
HasBlock(h, i) ==
    LET its == items[completed[i]]
    IN /\ BlockStart(i) + Len(its) <= Len(h)
       /\ SubSeq(h, BlockStart(i) + 1, BlockStart(i) + Len(its)) = its

\* C13 as stated, for the interleaving it describes: two checkouts in
\* progress together that began from the same stored history and whose
\* relays both succeeded leave a history that lacks the items of one of them.
C13_ConcurrentCheckoutsLoseAnUpdate ==
    \A r, q \in Req :
        /\ r # q /\ Succeeded(r) /\ Succeeded(q)
        /\ overlapped[r] /\ overlapped[q] /\ before[r] = before[q]
        => Len(History(orders_json)) < Len(History(before[r])) + Len(items[r]) + Len(items[q])

\* C13, amended: no update is lost.  The load, the extension and the save of
\* a checkout run without a suspension between them, so every checkout whose
\* relay succeeded finds what the ones before it wrote: the stored history
\* holds the items of each of them, in progress together or not.
C13_NoLostUpdate ==
    /\ \A r \in Req : Succeeded(r) => Count(r, completed) = 1
    /\ \A i \in DOMAIN completed : HasBlock(History(orders_json), i)
    /\ Len(History(orders_json)) = BlockStart(Len(completed) + 1)

C13_Witness ==
    /\ Succeeded(1) /\ Succeeded(2)
    /\ overlapped[1] /\ overlapped[2] /\ before[1] = before[2]
    /\ items[1] # items[2]
    /\ completed = <<2, 1>>
    /\ History(orders_json) = items[2] \o items[1]

\* The sequence h is a prefix of the sequence g.
IsPrefix(h, g) == Len(h) <= Len(g) /\ SubSeq(g, 1, Len(h)) = h

\* C14: the stored history is append-only: no step, of a checkout, of the
\* controller or of a recommendations read, in any interleaving, leaves a
\* history of which the history before it is not a prefix; so every value
\* the history takes has every earlier value as a prefix.
C14_AppendOnly ==
    [][IsPrefix(History(orders_json), History(orders_json'))]_vars

C14_Witness ==
    /\ Len(completed) = 2 /\ rec.http = 200 /\ rec.top # <<>>
    /\ items[completed[1]] = esp_items(<<Blank1>>)
    /\ IsPrefix(items[completed[1]], History(orders_json))
    /\ Len(History(orders_json)) = 3

\* C15: a checkout goes from validation to the relay, from the relay to the
\* store and from the store to its ok response, in that order: the history
\* is written only in the step in which a checkout's own relay has returned
\* the controller's successful answer, and what is written is that
\* checkout's items; a checkout ends in failure only out of validation or
\* out of the relay, in a step that leaves the history alone.
C15_PhasesInOrder ==
    [][/\ \A r \in Req :
            /\ pc'[r] # pc[r] =>
                  <<pc[r], pc'[r]>> \in {<<"idle", "relaying">>, <<"idle", "done">>,
                                         <<"relaying", "done">>}
            /\ (pc[r] = "idle" /\ pc'[r] = "relaying") => Valid(r)' /\ posts'[r] = 1
            /\ (pc'[r] = "done" /\ pc[r] # "done" /\ response'[r].status # "ok") =>
                  /\ orders_json' = orders_json
                  /\ \/ pc[r] = "idle" /\ ~Valid(r)'
                     \/ pc[r] = "relaying" /\ relayed'[r].raised
            /\ (pc'[r] = "done" /\ pc[r] # "done" /\ response'[r].status = "ok") =>
                  /\ pc[r] = "relaying"
                  /\ Appended(orders_json, orders_json', items[r])
       /\ orders_json' # orders_json =>
            \E r \in Req :
                /\ Returns(r)
                /\ esp[r] # NoReply /\ ~raise_for_status(esp[r].status)
                /\ ~relayed'[r].raised
                /\ Appended(orders_json, orders_json', items[r])]_vars

C15_Witness ==
    /\ pc = [r \in Req |-> "done"]
    /\ response[1].status = "error" /\ Valid(1) /\ relayed[1].raised
    /\ esp[1] # NoReply /\ 1 \in Range(dispensed)
    /\ response[2].status = "ok"
    /\ History(orders_json) = items[2] /\ Len(items[2]) = 2

\* C16: every checkout that reached the relay returns, with status ok or
\* status error, whether the controller answers, never answers or cannot be
\* reached; a relay that ends in a transport failure or a timeout gives
\* status error and leaves the stored history alone, whether or not the
\* controller goes on to accept the order.
C16_CheckoutTerminates ==
    /\ \A r \in Req :
          (pc[r] = "relaying") ~> (pc[r] = "done" /\ response[r].status \in {"ok", "error"})
    /\ [][\A r \in Req :
            (Returns(r) /\ relayed'[r].exc \in TransportErrors) =>
                /\ response'[r].status = "error"
                /\ orders_json' = orders_json]_vars

C16_Witness ==
    /\ pc = [r \in Req |-> "done"]
    /\ relayed[1].exc = "ReadTimeout" /\ esp[1] = NoReply
    /\ relayed[2].exc = "ReadTimeout" /\ 2 \in Range(dispensed)
    /\ response[1].status = "error" /\ response[2].status = "error"
    /\ History(orders_json) = <<>>

\* The place of x in the sequence seq, in which it occurs.
Pos(seq, x) == CHOOSE i \in DOMAIN seq : seq[i] = x

\* C17: for any two checkouts whose relays both succeeded, the entries of
\* each form one contiguous block of the stored history, and the two blocks
\* stand in the order in which the controller accepted the two orders.
C17_BlocksInDispenseOrder ==
    /\ \A i \in DOMAIN completed : HasBlock(History(orders_json), i)
    /\ \A r, q \in Req :
          (r # q /\ Succeeded(r) /\ Succeeded(q) /\ items[r] # items[q]) =>
              (Pos(dispensed, r) < Pos(dispensed, q) <=> Pos(completed, r) < Pos(completed, q))

\* C18: a read of the recommendations page never changes the stored
\* history: the step that gives a new page leaves orders.json as it was, in
\* any interleaving; and two reads with no successful checkout between them
\* give the same page: a read gives the page of the file as it stands, and
\* only the return of a checkout whose relay succeeded changes that page.
C18_ReadsLeaveHistoryAlone ==
    [][/\ rec' # rec =>
            /\ orders_json' = orders_json
            /\ rec' = recommendations_page(orders_json')
       /\ (~\E r \in Req : Returns(r) /\ ~relayed'[r].raised) =>
            recommendations_page(orders_json') = recommendations_page(orders_json)]_vars

C18_Witness ==
    /\ rec.http = 200 /\ rec.top = <<"Cola", "Mojito">>
    /\ rec = recommendations_page(orders_json)
    /\ pc[1] = "done" /\ pc[2] = "relaying" /\ esp[2] # NoReply

\* C19: an item whose drinkName is the empty string passes validation and,
\* its relay succeeding, is stored; the ranking neither counts nor returns
\* the empty name; and the recommendations page shows the no-orders
\* indicator for a history that is not empty and whose entries all have the
\* empty name.
C19_BlankNamesStoredNotRanked ==
    /\ [](\A r \in Req :
            body[r] = <<Blank1>> =>
                /\ Valid(r)
                /\ pc[r] # "idle" => items[r] = esp_items(<<Blank1>>) /\ posts[r] = 1
                /\ Succeeded(r) =>
                      /\ response[r].status = "ok"
                      /\ HasBlock(History(orders_json), Pos(completed, r)))
    /\ [](LET counter == CountOrders(History(orders_json))
          IN \A k \in DOMAIN counter :
                /\ counter[k][1] # ""
                /\ counter[k][2] = Total(History(orders_json), counter[k][1]))
    /\ [][rec' # rec =>
            /\ "" \notin Range(rec'.top)
            /\ (History(orders_json) # <<>> /\ NamesOf(History(orders_json)) = {""}) =>
                  rec'.nohistory /\ rec'.top = <<>>]_vars

C19_Witness ==
    /\ History(orders_json) = esp_items(<<Blank1>>) \o esp_items(<<Blank1>>)
    /\ rec.http = 200 /\ rec.nohistory /\ rec.top = <<>>
    /\ \A r \in Req : Succeeded(r) /\ body[r] = <<Blank1>>

====
